---------------------------- MODULE Spec2Model ----------------------------
(***************************************************************************)
(* Leader election over an etcd v2 key space (src/leader.go).              *)
(*                                                                         *)
(* NumActors goroutines run loop() forever.  Each cycle reads the leader   *)
(* key, tries to create it when absent, renews it with a prevIndex         *)
(* compare-and-swap when it carries the actor's own id, publishes the id   *)
(* on the broadcast key, and sleeps a jittered interval.                   *)
(*                                                                         *)
(* Every HTTP round trip is one atomic step: the store is linearizable and *)
(* the response is handled by the issuing goroutine before it does         *)
(* anything else.  Time is abstracted: a key written with a ttl may expire *)
(* at any later moment, a sleeping goroutine may wake at any moment.       *)
(* Durations are counted in microseconds.                                  *)
(***************************************************************************)
EXTENDS Integers, FiniteSets, Sequences, TLC

(* ------------------------------ bounds -------------------------------- *)

\* number of goroutines started by main (30 in the source)
NumActors == 3

\* the store's index counter is capped: no write is modelled beyond it
MaxIndex == 6

\* bits of the random source: rand.Float32() ranges over k / 2^RandBits
RandBits == 3

(* --------------------------- program constants ------------------------ *)

\* time.Second, in microseconds
Second == 1000000

\* state.ttl = time.Second * 1
LeaseTTL == Second * 1

\* run("shard-5", i)
Shard == "shard-5"

Actors == 0 .. (NumActors - 1)

\* fmt.Sprintf("%d", id)
ActorID(a) == ToString(a)

leaderKey == Shard \o "-leader"

broadcastKey == Shard \o "-broadcast"

Keys == {leaderKey, broadcastKey}

VARIABLES
    store,          \* etcd: key -> node
    index,          \* etcd: the store's current index
    pc,             \* per actor: position in run/loop
    leader,         \* per actor: state.leader
    resp,           \* per actor: loop's resp, the response of its Get (line 147)
    putResp,        \* per actor: loop's inner resp, the response of its leader-key Put
                    \* (lines 154, 182)
    sleepDuration,  \* per actor: sleepDuration of the sleep in progress (line 211)
    track,          \* the actors whose sleepDuration is recorded in the state
    round           \* history: outcome of each actor's create since the key was last absent

vars == <<store, index, pc, leader, resp, putResp, sleepDuration, track, round>>

(* ------------------------------ the store ----------------------------- *)
(* etcd itself is outside the repository.  What is modelled is the answer  *)
(* of its v2 keys API to the requests EtcdClient.Get and EtcdClient.Put    *)
(* encode: prevExist=false is refused with 105 on an existing key,         *)
(* prevIndex with 101 on another modifiedIndex and with 100 on a missing   *)
(* key, a value Put on a directory with 102; an accepted Put replaces the  *)
(* node, ttl included, and takes the next index of the store.              *)

\* a key that does not exist
NoNode ==
    [exists |-> FALSE, dir |-> FALSE, value |-> "", createdIndex |-> 0,
     modifiedIndex |-> 0, ttl |-> 0]

\* a directory found at a key: every Put of a value on it is refused
DirNode == [NoNode EXCEPT !.exists = TRUE, !.dir = TRUE]

\* the zero Option{}
NoOption == [ttl |-> 0, wait |-> FALSE, prevExist |-> 0, prevIndex |-> 0]

\* an EtcdResponse; the Node of an error response keeps its zero value
Response(code, value, modifiedIndex) ==
    [ErrorCode |-> code, Value |-> value, ModifiedIndex |-> modifiedIndex]

NoResponse == Response(-1, "", 0)

\* GET /v2/keys/key
StoreGet(node) ==
    IF node.exists
    THEN Response(0, node.value, node.modifiedIndex)
    ELSE Response(100, "", 0)

\* the ttl form field: strconv.Itoa(int(option.ttl/time.Second)), omitted when ttl = 0
TTLField(option) == IF option.ttl # 0 THEN option.ttl \div Second ELSE 0

\* errorCode of PUT /v2/keys/key with the directives Put encodes
PutErrorCode(node, option) ==
    IF node.dir THEN 102
    ELSE IF option.prevExist = -1 /\ node.exists THEN 105
    ELSE IF option.prevExist = 1 /\ ~node.exists THEN 100
    ELSE IF option.prevIndex # 0 /\ ~node.exists THEN 100
    ELSE IF option.prevIndex # 0 /\ node.modifiedIndex # option.prevIndex THEN 101
    ELSE 0

\* the node a key holds after the Put
PutNode(node, idx, value, option) ==
    IF PutErrorCode(node, option) = 0
    THEN [exists |-> TRUE, dir |-> FALSE, value |-> value,
          createdIndex |-> IF node.exists THEN node.createdIndex ELSE idx + 1,
          modifiedIndex |-> idx + 1, ttl |-> TTLField(option)]
    ELSE node

\* the store's index after the Put
PutIndex(node, idx, option) ==
    IF PutErrorCode(node, option) = 0 THEN idx + 1 ELSE idx

\* the response of the Put
PutResponse(node, idx, value, option) ==
    IF PutErrorCode(node, option) = 0
    THEN Response(0, value, idx + 1)
    ELSE Response(PutErrorCode(node, option), "", 0)

\* the index cap leaves room for the Put
PutFits(node, option) == PutErrorCode(node, option) # 0 \/ index < MaxIndex

(* ------------------------------ the loop ------------------------------ *)

\* values of rand.Float32(), as numerators over 2^RandBits
Rand == 0 .. (2^RandBits - 1)

\* rand.Float32() < 0.25
StallDrawn(r) == 4 * r < 2^RandBits

\* 0.5 + rand.Float32() in float32, as a numerator over 2^RandBits: sums below 1
\* are exact, sums in [1, 2) have half the resolution and round to even
JitterFactor(r) ==
    LET k == 2^(RandBits - 1) + r
    IN  IF k < 2^RandBits \/ k % 2 = 0 THEN k
        ELSE IF ((k - 1) \div 2) % 2 = 0 THEN k - 1
        ELSE k + 1

\* the sleep computed from state.ttl/2 instead of state.ttl/4
SleepDurationHalfTTL(ttl, r) == ((ttl \div 2) * JitterFactor(r)) \div 2^RandBits

\* time.Duration(float32(state.ttl/4) * (0.5 + rand.Float32()))
SleepDuration(ttl, r) == ((ttl \div 4) * JitterFactor(r)) \div 2^RandBits

\* the acquisition Put with its prevExist directive dropped
CreateOptionUnconditional == NoOption

\* Option{prevExist: -1} of the acquisition Put
CreateOption == [NoOption EXCEPT !.prevExist = -1]

\* the renewal Put with its prevIndex directive dropped
RenewOptionUnfenced(a) == [NoOption EXCEPT !.ttl = LeaseTTL]

\* the renewal Put fenced only by prevExist = 1, the key must exist
RenewOptionPrevExist(a) == [NoOption EXCEPT !.prevExist = 1, !.ttl = LeaseTTL]

\* the renewal Put with its ttl left out
RenewOptionNoTTL(a) == [NoOption EXCEPT !.prevIndex = resp[a].ModifiedIndex]

\* Option{prevIndex: resp.Node.ModifiedIndex, ttl: state.ttl} of the renewal Put
RenewOption(a) == [NoOption EXCEPT !.prevIndex = resp[a].ModifiedIndex, !.ttl = LeaseTTL]

\* the acquisition-path publish with the precondition of the renewal path
PublishAcqOptionMustNotExist == [NoOption EXCEPT !.prevExist = -1]

\* Option{} of the acquisition-path publish
PublishAcqOption == NoOption

\* the renewal-path publish without its precondition
PublishRenOptionUnconditional == NoOption

\* Option{prevExist: -1} of the renewal-path publish
PublishRenOption == [NoOption EXCEPT !.prevExist = -1]

\* lines 211-213: the jittered sleep that ends every cycle
EndCycle(a) ==
    /\ pc' = [pc EXCEPT ![a] = "sleep"]
    /\ IF a \in track
       THEN \E rnd \in Rand :
               sleepDuration' = [sleepDuration EXCEPT ![a] = SleepDuration(LeaseTTL, rnd)]
       ELSE UNCHANGED sleepDuration

TypeOK ==
    /\ index \in 0 .. MaxIndex
    /\ pc \in [Actors -> {"get", "create", "pubAcq", "stall", "renew", "pubRen",
                          "sleep", "stopped"}]
    /\ leader \in [Actors -> BOOLEAN]
    /\ track \subseteq Actors
    /\ \A k \in Keys : store[k].modifiedIndex <= index

Init ==
    /\ \E b \in {NoNode, DirNode} :
          store = [k \in Keys |-> IF k = broadcastKey THEN b ELSE NoNode]
    /\ index = 0
    /\ pc = [a \in Actors |-> "get"]
    /\ leader = [a \in Actors |-> FALSE]
    /\ resp = [a \in Actors |-> NoResponse]
    /\ putResp = [a \in Actors |-> NoResponse]
    /\ sleepDuration = [a \in Actors |-> 0]
    /\ track = {}
    /\ round = [a \in Actors |-> "none"]

\* the Get with the comparison of resp.Node.Value and state.id dropped
GetRenewsAnyHolder(a) ==
    /\ pc[a] = "get"
    /\ LET r == StoreGet(store[leaderKey])
       IN  /\ resp' = [resp EXCEPT ![a] = r]
           /\ IF r.ErrorCode = 100
              THEN pc' = [pc EXCEPT ![a] = "create"] /\ UNCHANGED sleepDuration
              ELSE IF r.ErrorCode = 0
              THEN /\ \E rnd \in Rand :
                         pc' = [pc EXCEPT ![a] = IF StallDrawn(rnd) THEN "stall" ELSE "renew"]
                   /\ UNCHANGED sleepDuration
              ELSE EndCycle(a)
    /\ UNCHANGED <<store, index, leader, putResp, track, round>>

\* line 147 and the branch on its response; a cycle without a write goes to sleep
Get(a) ==
    /\ pc[a] = "get"
    /\ LET r == StoreGet(store[leaderKey])
       IN  /\ resp' = [resp EXCEPT ![a] = r]
           /\ IF r.ErrorCode = 100
              THEN pc' = [pc EXCEPT ![a] = "create"] /\ UNCHANGED sleepDuration
              ELSE IF r.ErrorCode = 0 /\ r.Value = ActorID(a)
              THEN /\ \E rnd \in Rand :
                         pc' = [pc EXCEPT ![a] = IF StallDrawn(rnd) THEN "stall" ELSE "renew"]
                   /\ UNCHANGED sleepDuration
              ELSE EndCycle(a)
    /\ UNCHANGED <<store, index, leader, putResp, track, round>>

\* the create with the test of its errorCode dropped: it always goes on to publish
CreateIgnoresErrorCode(a) ==
    /\ pc[a] = "create"
    /\ PutFits(store[leaderKey], CreateOption)
    /\ LET n == store[leaderKey]
           r == PutResponse(n, index, ActorID(a), CreateOption)
       IN  /\ store' = [store EXCEPT ![leaderKey] = PutNode(n, index, ActorID(a), CreateOption)]
           /\ index' = PutIndex(n, index, CreateOption)
           /\ putResp' = [putResp EXCEPT ![a] = r]
           /\ round' = [round EXCEPT ![a] = IF r.ErrorCode = 0 THEN "won" ELSE "lost"]
           /\ pc' = [pc EXCEPT ![a] = "pubAcq"]
    /\ UNCHANGED <<leader, resp, sleepDuration, track>>

\* lines 154-173: the must-not-exist Put of the leader key
Create(a) ==
    /\ pc[a] = "create"
    /\ PutFits(store[leaderKey], CreateOption)
    /\ LET n == store[leaderKey]
           r == PutResponse(n, index, ActorID(a), CreateOption)
       IN  /\ store' = [store EXCEPT ![leaderKey] = PutNode(n, index, ActorID(a), CreateOption)]
           /\ index' = PutIndex(n, index, CreateOption)
           /\ putResp' = [putResp EXCEPT ![a] = r]
           /\ round' = [round EXCEPT ![a] = IF r.ErrorCode = 0 THEN "won" ELSE "lost"]
           /\ IF r.ErrorCode = 0
              THEN pc' = [pc EXCEPT ![a] = "pubAcq"] /\ UNCHANGED sleepDuration
              ELSE EndCycle(a)
    /\ UNCHANGED <<leader, resp, track>>

\* the acquisition-path publish without the assignment state.leader = true
PublishAcqNoLeader(a) ==
    /\ pc[a] = "pubAcq"
    /\ PutFits(store[broadcastKey], PublishAcqOption)
    /\ LET n == store[broadcastKey]
       IN  /\ store' = [store EXCEPT
                           ![broadcastKey] = PutNode(n, index, ActorID(a), PublishAcqOption)]
           /\ index' = PutIndex(n, index, PublishAcqOption)
    /\ EndCycle(a)
    /\ UNCHANGED <<leader, resp, putResp, track, round>>

\* lines 161-170: the publish after a successful create, then state.leader = true
PublishAcq(a) ==
    /\ pc[a] = "pubAcq"
    /\ PutFits(store[broadcastKey], PublishAcqOption)
    /\ LET n == store[broadcastKey]
       IN  /\ store' = [store EXCEPT
                           ![broadcastKey] = PutNode(n, index, ActorID(a), PublishAcqOption)]
           /\ index' = PutIndex(n, index, PublishAcqOption)
    /\ leader' = [leader EXCEPT ![a] = TRUE]
    /\ EndCycle(a)
    /\ UNCHANGED <<resp, putResp, track, round>>

\* lines 177-181: time.Sleep(state.ttl * 10) before the renewal
Stall(a) ==
    /\ pc[a] = "stall"
    /\ pc' = [pc EXCEPT ![a] = "renew"]
    /\ UNCHANGED <<store, index, leader, resp, putResp, sleepDuration, track, round>>

\* the renewal with a refused Put ending the loop
RenewStopsWhenRefused(a) ==
    /\ pc[a] = "renew"
    /\ PutFits(store[leaderKey], RenewOption(a))
    /\ LET n == store[leaderKey]
           r == PutResponse(n, index, ActorID(a), RenewOption(a))
       IN  /\ store' = [store EXCEPT ![leaderKey] = PutNode(n, index, ActorID(a), RenewOption(a))]
           /\ index' = PutIndex(n, index, RenewOption(a))
           /\ putResp' = [putResp EXCEPT ![a] = r]
           /\ IF r.ErrorCode = 0
              THEN pc' = [pc EXCEPT ![a] = "pubRen"] /\ UNCHANGED <<leader, sleepDuration>>
              ELSE /\ leader' = [leader EXCEPT ![a] = FALSE]
                   /\ pc' = [pc EXCEPT ![a] = "stopped"]
                   /\ UNCHANGED sleepDuration
    /\ UNCHANGED <<resp, track, round>>

\* lines 182-206: the prevIndex Put of the leader key
Renew(a) ==
    /\ pc[a] = "renew"
    /\ PutFits(store[leaderKey], RenewOption(a))
    /\ LET n == store[leaderKey]
           r == PutResponse(n, index, ActorID(a), RenewOption(a))
       IN  /\ store' = [store EXCEPT ![leaderKey] = PutNode(n, index, ActorID(a), RenewOption(a))]
           /\ index' = PutIndex(n, index, RenewOption(a))
           /\ putResp' = [putResp EXCEPT ![a] = r]
           /\ IF r.ErrorCode = 0
              THEN pc' = [pc EXCEPT ![a] = "pubRen"] /\ UNCHANGED <<leader, sleepDuration>>
              ELSE /\ leader' = [leader EXCEPT ![a] = FALSE]
                   /\ EndCycle(a)
    /\ UNCHANGED <<resp, track, round>>

\* the renewal-path publish with a refused Put taken as the loss of the lease
PublishRenDemotesWhenRefused(a) ==
    /\ pc[a] = "pubRen"
    /\ PutFits(store[broadcastKey], PublishRenOption)
    /\ LET n == store[broadcastKey]
       IN  /\ store' = [store EXCEPT
                           ![broadcastKey] = PutNode(n, index, ActorID(a), PublishRenOption)]
           /\ index' = PutIndex(n, index, PublishRenOption)
           /\ leader' = [leader EXCEPT
                            ![a] = @ /\ PutErrorCode(n, PublishRenOption) = 0]
    /\ EndCycle(a)
    /\ UNCHANGED <<resp, putResp, track, round>>

\* lines 193-201: the publish after a successful renewal
PublishRen(a) ==
    /\ pc[a] = "pubRen"
    /\ PutFits(store[broadcastKey], PublishRenOption)
    /\ LET n == store[broadcastKey]
       IN  /\ store' = [store EXCEPT
                           ![broadcastKey] = PutNode(n, index, ActorID(a), PublishRenOption)]
           /\ index' = PutIndex(n, index, PublishRenOption)
    /\ EndCycle(a)
    /\ UNCHANGED <<leader, resp, putResp, track, round>>

\* the key and directives of the request the actor is about to send
PendingKey(a) == IF pc[a] \in {"pubAcq", "pubRen"} THEN broadcastKey ELSE leaderKey

PendingOption(a) ==
    CASE pc[a] = "create" -> CreateOption
      [] pc[a] = "renew"  -> RenewOption(a)
      [] pc[a] = "pubAcq" -> PublishAcqOption
      [] pc[a] = "pubRen" -> PublishRenOption

\* err != nil on any request: loop returns false and run ends.  A Put whose
\* response is lost may or may not have been applied by the store.
TransportError(a) ==
    /\ pc[a] \in {"get", "create", "pubAcq", "renew", "pubRen"}
    /\ pc' = [pc EXCEPT ![a] = "stopped"]
    /\ \/ UNCHANGED <<store, index, round>>
       \/ /\ pc[a] \in {"create", "pubAcq", "renew", "pubRen"}
          /\ PutErrorCode(store[PendingKey(a)], PendingOption(a)) = 0
          /\ index < MaxIndex
          /\ store' = [store EXCEPT ![PendingKey(a)] =
                          PutNode(@, index, ActorID(a), PendingOption(a))]
          /\ index' = index + 1
          /\ round' = IF pc[a] = "create" THEN [round EXCEPT ![a] = "error"] ELSE round
    /\ UNCHANGED <<leader, resp, putResp, sleepDuration, track>>

\* lines 212-213 and 136: the sleep ends, loop returns true (its locals are
\* gone) and run calls it again
Wake(a) ==
    /\ pc[a] = "sleep"
    /\ pc' = [pc EXCEPT ![a] = "get"]
    /\ sleepDuration' = [sleepDuration EXCEPT ![a] = 0]
    /\ resp' = [resp EXCEPT ![a] = NoResponse]
    /\ putResp' = [putResp EXCEPT ![a] = NoResponse]
    /\ UNCHANGED <<store, index, leader, track, round>>

\* the store removes a key whose ttl has run out
Expire ==
    /\ store[leaderKey].exists
    /\ store[leaderKey].ttl # 0
    /\ index < MaxIndex
    /\ store' = [store EXCEPT ![leaderKey] = NoNode]
    /\ index' = index + 1
    /\ round' = [a \in Actors |-> "none"]
    /\ UNCHANGED <<pc, leader, resp, putResp, sleepDuration, track>>

Next ==
    \/ \E a \in Actors : Get(a)
    \/ \E a \in Actors : Create(a)
    \/ \E a \in Actors : PublishAcq(a)
    \/ \E a \in Actors : Stall(a)
    \/ \E a \in Actors : Renew(a)
    \/ \E a \in Actors : PublishRen(a)
    \/ \E a \in Actors : Wake(a)
    \/ \E a \in Actors : TransportError(a)
    \/ Expire

Spec == Init /\ [][Next]_vars

\* what the goroutine of actor a does when its requests are answered
Step(a) ==
    \/ Get(a) \/ Create(a) \/ PublishAcq(a) \/ Stall(a) \/ Renew(a) \/ PublishRen(a)
    \/ Wake(a)

\* every goroutine is scheduled, every answered request returns, every sleep
\* ends, and the store expires a key whose ttl has run out
FairSpec == Spec /\ WF_vars(Expire) /\ \A a \in Actors : WF_vars(Step(a))

\* two running actors, the sleeps of actor 0 recorded
InitJitter ==
    /\ \E b \in {NoNode, DirNode} :
          store = [k \in Keys |-> IF k = broadcastKey THEN b ELSE NoNode]
    /\ index = 0
    /\ pc = [a \in Actors |-> IF a < 2 THEN "get" ELSE "stopped"]
    /\ leader = [a \in Actors |-> FALSE]
    /\ resp = [a \in Actors |-> NoResponse]
    /\ putResp = [a \in Actors |-> NoResponse]
    /\ sleepDuration = [a \in Actors |-> 0]
    /\ track = {0}
    /\ round = [a \in Actors |-> "none"]

SpecJitter == InitJitter /\ [][Next]_vars

(* ------------------------------ the claims ---------------------------- *)

\* the modifiedIndex an actor last wrote (its Put succeeded) or read (its Get)
FencingIndex(a) ==
    IF putResp[a].ErrorCode = 0 THEN putResp[a].ModifiedIndex ELSE resp[a].ModifiedIndex

\* the actors whose isLeader is backed by the store's current modifiedIndex
FencedLeaders ==
    {a \in Actors : /\ leader[a]
                    /\ store[leaderKey].exists
                    /\ FencingIndex(a) = store[leaderKey].modifiedIndex}

\* C1: in every reachable state at most one actor has isLeader = true together
\* with a fencing index equal to the modifiedIndex the store records for the
\* leader key.
C1_FencedSafety == Cardinality(FencedLeaders) <= 1


\* the actors whose create returned the given outcome since the key was last absent
RoundOutcome(o) == {a \in Actors : round[a] = o}

\* C2: of the must-not-exist Puts issued on the leader key between two
\* expiries, at most one returns errorCode 0; when every such Put was answered
\* and one of them was refused, exactly one returned errorCode 0; and only the
\* actor whose Put returned 0 goes on to set isLeader = true.
C2_CreationExclusivity ==
    /\ Cardinality(RoundOutcome("won")) <= 1
    /\ (RoundOutcome("lost") # {} /\ RoundOutcome("error") = {})
          => Cardinality(RoundOutcome("won")) = 1
    /\ \A a \in Actors : pc[a] = "pubAcq" => RoundOutcome("won") = {a}

\* every actor issued its create in the same round: one won, all others lost
C2_Witness ==
    /\ Cardinality(RoundOutcome("won")) = 1
    /\ Cardinality(RoundOutcome("lost")) = NumActors - 1
    /\ \E a \in RoundOutcome("won") : leader[a]


\* the index the actor read with its own id is no longer the key's: the key
\* has expired or has been created again since
StaleRead(a) ==
    \/ ~store[leaderKey].exists
    \/ store[leaderKey].modifiedIndex # resp[a].ModifiedIndex

\* C3: a renewal Put that presents an index the key no longer has leaves the
\* store unchanged and, when it is answered, is answered with a nonzero
\* errorCode; the actor then has isLeader = false and goes to its sleep.
C3_StaleRenewalRejected ==
    [][\A a \in Actors :
          (pc[a] = "renew" /\ pc'[a] # "renew" /\ StaleRead(a))
             => /\ store' = store
                /\ pc'[a] # "stopped"
                      => /\ putResp'[a].ErrorCode # 0
                         /\ ~leader'[a]
                         /\ pc'[a] = "sleep"]_vars

\* an actor that stalled after reading its own id was refused with errorCode
\* 101 and is Follower, the key now being another actor's
C3_Witness ==
    \E a \in Actors :
        /\ pc[a] = "sleep"
        /\ resp[a].ErrorCode = 0 /\ resp[a].Value = ActorID(a)
        /\ putResp[a].ErrorCode = 101
        /\ ~leader[a]
        /\ store[leaderKey].exists /\ store[leaderKey].value # ActorID(a)
        /\ store[leaderKey].modifiedIndex # resp[a].ModifiedIndex


\* the leader key is held by actor a
Holds(a) == store[leaderKey].exists /\ store[leaderKey].value = ActorID(a)

\* actor a believes it leads and the leader key says so
Acquired(a) == leader[a] /\ Holds(a)

\* every actor but a has stopped
OthersStopped(a) == \A b \in Actors \ {a} : pc[b] = "stopped"

\* C4: once the holder of a renewed lease has stopped, some other actor
\* eventually acquires leadership, provided one of them keeps running (and the
\* index cap of the model is not reached first).
C4_TakeoverAfterRenewal ==
    \A a \in Actors :
        (pc[a] = "stopped" /\ Holds(a) /\ store[leaderKey].ttl # 0)
            ~> \/ \E b \in Actors \ {a} : Acquired(b)
               \/ OthersStopped(a)
               \/ index = MaxIndex


\* the leader key is as its acquisition Put wrote it: never renewed since
Unrenewed == store[leaderKey].modifiedIndex = store[leaderKey].createdIndex

\* actor b has read the leader key with the id of actor a and is Follower
Observed(b, a) ==
    /\ pc[b] # "stopped"
    /\ resp[b].ErrorCode = 0 /\ resp[b].Value = ActorID(a)
    /\ ~leader[b]

\* C5: when actor a created the leader key and became Leader, another actor
\* read the key with a's id, and a stopped without writing the key again, the
\* key eventually expires and another actor acquires leadership, provided one
\* of them keeps running (and the index cap of the model is not reached first).
C5_TakeoverAfterAcquisition ==
    \A a \in Actors :
        (/\ pc[a] = "stopped" /\ leader[a] /\ Holds(a) /\ Unrenewed
         /\ \E b \in Actors \ {a} : Observed(b, a))
            ~> \/ \E b \in Actors \ {a} : Acquired(b)
               \/ OthersStopped(a)
               \/ index = MaxIndex


\* C6: an actor stops exactly when one of its requests ends in a transport
\* error, whatever errorCode an answered request carries the actor goes on;
\* a stopped actor stays stopped, keeps its state and sends nothing more; and
\* an actor that meets no transport error starts a new cycle again and again
\* (until the index cap of the model is reached).
C6_StopsOnlyOnTransportError ==
    /\ [][\A a \in Actors :
             /\ (pc[a] # "stopped" /\ pc'[a] = "stopped") <=> TransportError(a)
             /\ Step(a) => pc'[a] # "stopped"
             /\ pc[a] = "stopped"
                   => /\ pc'[a] = "stopped"
                      /\ leader'[a] = leader[a]
                      /\ resp'[a] = resp[a]
                      /\ putResp'[a] = putResp[a]]_vars
    /\ [][(store' # store /\ ~Expire)
             => \E a \in Actors : pc[a] # "stopped" /\ pc'[a] # pc[a]]_vars
    /\ \A a \in Actors : []<>(pc[a] \in {"get", "stopped"} \/ index = MaxIndex)

\* an actor whose Put was refused has gone to its sleep, another has stopped
C6_Witness ==
    \E a, b \in Actors :
        /\ pc[a] = "sleep" /\ putResp[a].ErrorCode \in {100, 101, 105}
        /\ pc[b] = "stopped"


\* actor a's publish is answered in this step
Published(a) == pc[a] \in {"pubAcq", "pubRen"} /\ pc'[a] \notin {pc[a], "stopped"}

\* the errorCode the store answers actor a's pending publish with
PublishErrorCode(a) == PutErrorCode(store[broadcastKey], PendingOption(a))

\* C7: an answered publish leaves the actor Leader and asleep and the leader
\* key untouched whatever its errorCode, on the acquisition path and on the
\* renewal path; a refused publish changes nothing in the store.
C7_PublishNeverAffectsLeadership ==
    [][\A a \in Actors :
          Published(a)
             => /\ leader'[a]
                /\ pc'[a] = "sleep"
                /\ store'[leaderKey] = store[leaderKey]
                /\ <<resp'[a], putResp'[a]>> = <<resp[a], putResp[a]>>
                /\ PublishErrorCode(a) # 0 => store' = store]_vars

\* the broadcast key is a directory, so every publish is refused: one actor
\* sleeps after a refused renewal-path publish, another after a refused
\* acquisition-path publish, both Leader
C7_Witness ==
    /\ store[broadcastKey].dir
    /\ \E a, b \in Actors :
          /\ pc[a] = "sleep" /\ resp[a].ErrorCode = 100 /\ putResp[a].ErrorCode = 0
          /\ pc[b] = "sleep" /\ resp[b].ErrorCode = 0 /\ putResp[b].ErrorCode = 0
          /\ leader[a] /\ leader[b]


\* the paths of a cycle that end without a transport error, by the responses
\* the actor holds when it goes to sleep
CyclePath(a) ==
    IF resp[a].ErrorCode = 100
    THEN IF putResp[a].ErrorCode = 0 THEN "acquired" ELSE "create refused"
    ELSE IF resp[a].Value # ActorID(a) THEN "other leader"
    ELSE IF putResp[a].ErrorCode = 0 THEN "renewed" ELSE "renewal refused"

\* C8: the sleep of every cycle that ends without a transport error lies in
\* [LeaseTTL/8, 3*LeaseTTL/8] for every value of the random source, and no
\* cycle starts, on any path, but from such a sleep.
C8_JitterBounds ==
    /\ [](\A a \in track :
             pc[a] = "sleep"
                => /\ 8 * sleepDuration[a] >= LeaseTTL
                   /\ 8 * sleepDuration[a] <= 3 * LeaseTTL)
    /\ [][\A a \in Actors :
             /\ (pc[a] # "get" /\ pc'[a] = "get") => pc[a] = "sleep"
             /\ (pc[a] # pc'[a] /\ pc[a] \in {"create", "pubAcq", "renew", "pubRen"})
                   => pc'[a] \in {"pubAcq", "pubRen", "sleep", "stopped"}]_vars

\* a cycle lost to another leader's key sleeps the longest interval, 375 ms,
\* which the rounding of 0.5 + rand.Float32() to 1.5 produces
C8_Witness ==
    \E a \in track :
        /\ pc[a] = "sleep"
        /\ CyclePath(a) = "other leader"
        /\ 8 * sleepDuration[a] = 3 * LeaseTTL
        /\ LeaseTTL = 8 * 125000


\* actor a's create returned errorCode 0 in its current cycle
CreateReturnedZero(a) == resp[a].ErrorCode = 100 /\ putResp[a].ErrorCode = 0

\* C9: an actor whose create returned errorCode 0 is Leader from then on:
\* while it issues the acquisition-path publish, and when a transport error on
\* that publish has stopped it.
C9_LeaderBeforePublish ==
    \A a \in Actors : CreateReturnedZero(a) => leader[a]

\* C10: an actor whose Get returned errorCode 100 and whose create was refused
\* is Follower when it goes to sleep.
C10_LostRaceIsFollower ==
    \A a \in Actors :
        (pc[a] = "sleep" /\ resp[a].ErrorCode = 100 /\ putResp[a].ErrorCode \notin {-1, 0})
            => ~leader[a]


\* actor a's Get returned errorCode 0 with another actor's id
ReadOtherLeader(a) == resp[a].ErrorCode = 0 /\ resp[a].Value # ActorID(a)

\* C11: an actor whose Get returned errorCode 0 with a value other than its
\* own id is Follower when it goes to sleep.
C11_OtherLeaderIsFollower ==
    \A a \in Actors : (pc[a] = "sleep" /\ ReadOtherLeader(a)) => ~leader[a]

\* C12: an actor that has read another actor's id sends no Put in that cycle:
\* the Get that reads it leaves the store as it is and takes the actor straight
\* to its sleep, and no actor is ever about to write with such a read in hand.
C12_NoWriteBehindOtherLeader ==
    /\ [](\A a \in Actors :
             ReadOtherLeader(a) => pc[a] \in {"sleep", "stopped"} /\ putResp[a] = NoResponse)
    /\ [][\A a \in Actors :
             (pc[a] = "get" /\ ReadOtherLeader(a)')
                => /\ pc'[a] = "sleep"
                   /\ <<store', index'>> = <<store, index>>]_vars
    /\ [][\A a \in Actors :
             (pc[a] = "sleep" /\ ReadOtherLeader(a) /\ pc'[a] # pc[a])
                => <<store', index'>> = <<store, index>>]_vars

\* an actor sleeps after reading the id of the actor that holds the key, and
\* has sent no Put
C12_Witness ==
    \E a, b \in Actors :
        /\ a # b
        /\ pc[a] = "sleep" /\ ReadOtherLeader(a) /\ putResp[a] = NoResponse
        /\ resp[a].Value = ActorID(b)
        /\ store[leaderKey].exists /\ store[leaderKey].value = ActorID(b)
        /\ store[leaderKey].modifiedIndex = resp[a].ModifiedIndex


\* actor a's Get returned errorCode 0 with its own id
ReadOwnId(a) == resp[a].ErrorCode = 0 /\ resp[a].Value = ActorID(a)

\* actor a's renewal Put is answered in this step
RenewalAnswered(a) == pc[a] = "renew" /\ pc'[a] \notin {"renew", "stopped"}

\* C13: the stall and the renewal Put occur only in a cycle whose Get returned
\* the actor's own id, the stall only before the renewal; the renewal is
\* accepted exactly when the key still has the modifiedIndex that Get returned,
\* stall or not, and then the actor is Leader and the key carries its id, the
\* next index and a ttl of LeaseTTL.
C13_RenewalStep ==
    /\ [](\A a \in Actors : pc[a] \in {"stall", "renew", "pubRen"} => ReadOwnId(a))
    /\ [][\A a \in Actors :
             /\ (pc[a] # "stall" /\ pc'[a] = "stall") => (pc[a] = "get" /\ ReadOwnId(a)')
             /\ (pc[a] = "stall" /\ pc'[a] # "stall")
                   => /\ pc'[a] = "renew"
                      /\ <<store', resp'[a]>> = <<store, resp[a]>>
             /\ (pc[a] # "renew" /\ pc'[a] = "renew") => pc[a] \in {"get", "stall"}
             /\ RenewalAnswered(a)
                   => /\ resp'[a] = resp[a]
                      /\ putResp'[a].ErrorCode = 0
                            <=> (/\ store[leaderKey].exists
                                 /\ store[leaderKey].modifiedIndex = resp[a].ModifiedIndex)
                      /\ putResp'[a].ErrorCode = 0
                            => /\ pc'[a] = "pubRen"
                               /\ leader'[a]
                               /\ store'[leaderKey].exists
                               /\ store'[leaderKey].value = ActorID(a)
                               /\ store'[leaderKey].modifiedIndex = index + 1
                               /\ store'[leaderKey].ttl * Second = LeaseTTL
                               /\ putResp'[a].ModifiedIndex = index + 1]_vars

\* an actor renewed the key it had created: it is Leader, about to publish,
\* and the key carries its id, the index of the renewal and the ttl
C13_Witness ==
    \E a \in Actors :
        /\ pc[a] = "pubRen" /\ leader[a]
        /\ putResp[a].ErrorCode = 0
        /\ store[leaderKey].value = ActorID(a)
        /\ store[leaderKey].modifiedIndex = putResp[a].ModifiedIndex
        /\ store[leaderKey].modifiedIndex > resp[a].ModifiedIndex
        /\ store[leaderKey].ttl = 1


\* C14: every renewal-path publish finds the broadcast key present, is
\* refused and leaves the store as it was; the broadcast key changes only in
\* the step of an actor's acquisition-path publish, to that actor's id.
C14_RenewalPublishRefused ==
    /\ [](\A a \in Actors :
             pc[a] = "pubRen"
                => /\ store[broadcastKey].exists
                   /\ PublishErrorCode(a) # 0)
    /\ [][\A a \in Actors :
             (pc[a] = "pubRen" /\ pc'[a] # "pubRen")
                => <<store', index'>> = <<store, index>>]_vars
    /\ [][store'[broadcastKey] # store[broadcastKey]
             => \E a \in Actors :
                   /\ pc[a] = "pubAcq" /\ pc'[a] # "pubAcq"
                   /\ store'[broadcastKey].value = ActorID(a)]_vars

\* in a store that started empty an actor renewed its lease, had its
\* renewal-path publish refused and sleeps; the broadcast key still holds the
\* value and the index of an acquisition-path publish
C14_Witness ==
    \E a \in Actors :
        /\ pc[a] = "sleep" /\ ReadOwnId(a) /\ putResp[a].ErrorCode = 0
        /\ ~store[broadcastKey].dir
        /\ store[broadcastKey].value = ActorID(a)
        /\ store[broadcastKey].modifiedIndex < putResp[a].ModifiedIndex


\* the actors whose isLeader is true
Leaders == {a \in Actors : leader[a]}

\* C15: at most one actor has isLeader = true.
C15_MutualExclusion == Cardinality(Leaders) <= 1

\* Two actors are Leader at once with neither the lost-race nor the
\* foreign-leader branch involved: one read its own id and has not yet sent its
\* renewal, the other created the key after it expired and published.
C15_StalledLeaderOverlap ==
    \E a, b \in Actors :
        /\ a # b /\ leader[a] /\ leader[b]
        /\ pc[a] \in {"stall", "renew"} /\ ReadOwnId(a)
        /\ pc[b] = "sleep" /\ round[b] = "won" /\ Holds(b)

\* the leader key has not expired since the store was empty: it is absent
\* and nothing was written, or it is the first node created
FirstLease ==
    IF store[leaderKey].exists THEN store[leaderKey].createdIndex = 1 ELSE index = 0

\* C15 (amended): until the leader key first expires at most one actor has
\* isLeader = true; isLeader becomes true only in the acquisition-path publish
\* of the actor whose id is the value of the leader key.
C15_MutualExclusionUntilExpiry ==
    /\ [](FirstLease => Cardinality(Leaders) <= 1)
    /\ [][\A a \in Actors :
             (~leader[a] /\ leader'[a])
                => pc[a] = "pubAcq" /\ Holds(a) /\ Holds(a)']_vars

\* before any expiry one actor is Leader and has renewed its lease, another
\* lost the create race against it and a third read its id
C15_Witness ==
    \E a, b, c \in Actors :
        /\ FirstLease /\ Leaders = {a} /\ Holds(a) /\ ~Unrenewed
        /\ round[b] = "lost" /\ pc[b] = "sleep"
        /\ pc[c] = "sleep" /\ ReadOtherLeader(c)


\* C16: an actor whose Get returns its own id is Leader already before that
\* Get; it is Leader throughout the renewal branch, and an accepted renewal
\* leaves isLeader as it was, true.
C16_HolderBelievesItLeads ==
    /\ [][\A a \in Actors :
             (pc[a] = "get" /\ pc'[a] # "get" /\ ReadOwnId(a)')
                => leader[a] /\ leader'[a]]_vars
    /\ [](\A a \in Actors : pc[a] \in {"stall", "renew", "pubRen"} => leader[a])
    /\ [][\A a \in Actors :
             (RenewalAnswered(a) /\ putResp'[a].ErrorCode = 0)
                => leader[a] /\ leader'[a]]_vars

\* an actor that took the key over after an expiry read its own id and is
\* Leader at its renewal Put
C16_Witness ==
    \E a \in Actors :
        /\ pc[a] = "renew" /\ ReadOwnId(a) /\ leader[a]
        /\ store[leaderKey].createdIndex > 1
        /\ store[leaderKey].modifiedIndex = resp[a].ModifiedIndex


\* the leader key is created on an absent key by an actor at its create Put
CreatedOnAbsent ==
    /\ ~store[leaderKey].exists /\ store'[leaderKey].exists
    /\ \E a \in Actors :
          /\ pc[a] = "create" /\ pc'[a] # "create"
          /\ store'[leaderKey].value = ActorID(a)

\* the leader key is rewritten by the renewal Put of the actor whose id it holds
RenewedByHolder ==
    /\ store[leaderKey].exists /\ store'[leaderKey].exists
    /\ store'[leaderKey].value = store[leaderKey].value
    /\ \E a \in Actors :
          /\ pc[a] = "renew" /\ pc'[a] # "renew"
          /\ store[leaderKey].value = ActorID(a)

\* C17: the leader key changes only by expiring, by a create on the absent
\* key, or by a renewal of the actor whose id it holds, which keeps the value;
\* each write gives the key the next index, above every index it had.
C17_LeaseNeverOverwritten ==
    /\ [](store[leaderKey].modifiedIndex <= index)
    /\ [][store'[leaderKey] # store[leaderKey]
             => \/ store[leaderKey].exists /\ store'[leaderKey] = NoNode
                \/ /\ CreatedOnAbsent \/ RenewedByHolder
                   /\ index' = index + 1
                   /\ store'[leaderKey].modifiedIndex = index'
                   /\ store'[leaderKey].modifiedIndex > store[leaderKey].modifiedIndex]_vars

\* the key holds its second value: it was created, renewed, expired, created
\* by another actor and renewed by that one
C17_Witness ==
    \E a \in Actors :
        /\ Holds(a) /\ ~Unrenewed /\ store[leaderKey].createdIndex > 3
        /\ pc[a] = "pubRen"
        /\ \E b \in Actors \ {a} : leader[b]


\* actor x is between its create and the completion of its acquisition-path
\* publish: it is at the publish, or it stopped on a transport error in the
\* cycle whose Get found the key absent
InAcquisition(x) ==
    \/ pc[x] = "pubAcq"
    \/ pc[x] = "stopped" /\ resp[x].ErrorCode = 100

\* C18: in a store that started empty, when the leader key holds the id of an
\* actor that is not between its create and the completion of its
\* acquisition-path publish, the broadcast key holds the same id; the
\* broadcast key changes only by the publish of the actor holding the leader key.
C18_BroadcastAgreesWithLease ==
    /\ [](~store[broadcastKey].dir
             => \A x \in Actors :
                   (Holds(x) /\ ~InAcquisition(x))
                      => /\ store[broadcastKey].exists
                         /\ store[broadcastKey].value = ActorID(x))
    /\ [][store'[broadcastKey] # store[broadcastKey]
             => \E x \in Actors :
                   /\ Holds(x) /\ Holds(x)'
                   /\ pc[x] = "pubAcq" /\ pc'[x] # "pubAcq"
                   /\ store'[broadcastKey].value = ActorID(x)]_vars

\* the second holder of the lease has published over the first one's
\* broadcast value and sleeps; the first is still running
C18_Witness ==
    \E x, y \in Actors :
        /\ x # y /\ Holds(x) /\ pc[x] = "sleep" /\ leader[x]
        /\ store[leaderKey].createdIndex > 1
        /\ store[broadcastKey].value = ActorID(x)
        /\ store[broadcastKey].createdIndex < store[leaderKey].createdIndex
        /\ leader[y] /\ pc[y] # "stopped"

=============================================================================
